---------------------------- MODULE Spec2Model ----------------------------
(***************************************************************************)
(* Model of src/imageocr.py: the Open WebUI filter that replaces the image *)
(* of a first-round user message by text obtained from a remote OCR model. *)
(*                                                                         *)
(* One behaviour is one invocation of Filter.inlet on one payload.  Steps  *)
(* are cut at the suspension points of the coroutine (the awaits of the    *)
(* notification sink and of the HTTP request); everything the code runs    *)
(* between two awaits is one action.                                       *)
(*                                                                         *)
(* Conventions:                                                            *)
(*  - a dict is a TLA+ record/function over its keys; an absent key is     *)
(*    absent from the DOMAIN;                                              *)
(*  - a list is a sequence; the code's 0-based index i is element i + 1;   *)
(*  - message content is tagged, since TLA+ cannot compare a string with   *)
(*    a sequence: [kind |-> "list", items |-> <<...>>] is a Python list,   *)
(*    [kind |-> "str", value |-> s] a scalar string;                       *)
(*  - Python's None is the string None below, distinct from every text a   *)
(*    response can carry; an empty tuple stands for the scanner's None.    *)
(***************************************************************************)
EXTENDS Integers, Sequences, FiniteSets, TLC

\* ------------------------------------------------------------------ bounds
MaxMsgs == 2
MaxItems == 2
MaxRetries == 3
\* Items per message in the conversations of several calls.
MaxConvItems == 1
\* The largest max_retries of two concurrent invocations.
MaxConcRetries == 2

\* ------------------------------------------------------------- input space
Roles == {"user", "assistant"}
ItemTypes == {"text", "image_url"}
\* The texts a successful OCR response can carry.
Results == {"R1", "R2"}
\* What makes one attempt fail: connection error, non-2xx status, bad JSON.
FailureKinds == {"transport_error", "http_error", "malformed_response"}
None == "None"
\* max_retries is a plain int field: the model accepts -1, 0 and 1..MaxRetries.
RetryValues == {0 - 1} \cup (0 .. MaxRetries)

SeqsUpTo(S, n) == UNION {[1 .. k -> S] : k \in 0 .. n}

\* A content item of type ty at 0-based position (m, c); texts and urls are
\* made distinct by position so that items can be told apart.
MkItem(ty, m, c) ==
    IF ty = "text"
    THEN [type |-> "text", text |-> "t" \o ToString(m) \o ToString(c)]
    ELSE [type |-> "image_url",
          image_url |-> [url |-> "u" \o ToString(m) \o ToString(c)]]

ContentShapes ==
    {[kind |-> "str"]} \cup
    {[kind |-> "list", types |-> s] : s \in SeqsUpTo(ItemTypes, MaxItems)}

MkContent(shape, m) ==
    IF shape.kind = "str"
    THEN [kind |-> "str", value |-> "s" \o ToString(m)]
    ELSE [kind |-> "list",
          items |-> [c \in 1 .. Len(shape.types) |->
                        MkItem(shape.types[c], m, c - 1)]]

MessageShapes == [role : Roles, content : ContentShapes]

MkMessages(shapes) ==
    [m \in 1 .. Len(shapes) |->
        [role |-> shapes[m].role,
         content |-> MkContent(shapes[m].content, m - 1)]]

\* The payloads inlet is called with: a dict with another key besides
\* "messages", with or without the "messages" key.
Bodies ==
    {[model |-> "gpt"]} \cup
    {[model |-> "gpt", messages |-> MkMessages(s)] :
        s \in SeqsUpTo(MessageShapes, MaxMsgs)}

\* ------------------------------------------------------------------- state
VARIABLES
    body,        \* the payload dict, mutated in place
    body0,       \* history: the payload as it was on entry
    max_retries, \* self.valves.max_retries
    pc,          \* where the invocation is
    image_info,  \* inlet's local (message_index, content_index, image)
    attempt,     \* the loop variable of _perform_ocr
    result,      \* _perform_ocr's local result / inlet's local result
    fetch,       \* the _perform_ocr call: idle, running, returned, raised, cancelled
    session,     \* the aiohttp.ClientSession: none, open, closed
    trace,       \* history: sink calls and network attempts, in order
    valves,      \* self.valves but max_retries: urls, key, prompt, model name
    requests,    \* history: the requests posted by this invocation, in order
    responses,   \* history: the texts of the 2xx responses it received
    calls,       \* history: scanner runs, fetcher calls, sessions created
    unwinding,   \* what is leaving an async with block: none, return, raise, cancel
    other,       \* the frame of a second invocation that is not running
    history      \* history: one summary per earlier inlet call of the conversation

vars == <<body, body0, max_retries, pc, image_info, attempt, result, fetch,
          session, trace, valves, requests, responses, calls, unwinding,
          other, history>>

\* What no step of an invocation touches: the configuration, the frame of the
\* other invocation and the summaries of the earlier calls.
outside == <<valves, other, history>>

\* ------------------------------------------------------------------ valves
\* Two configurations: the defaults of lines 12-21 and one with every field
\* set by the host.
DefaultValves ==
    [OCR_Base_URL |-> "https://api.openai.com",
     OCR_API_KEY |-> "",
     ocr_prompt |-> "Please only recognize and extract the text or data from this image without interpreting, analyzing, or understanding the content. Do not output any additional information. Simply return the recognized text or data content.",
     model_name |-> "gemini-1.5-flash-latest"]

ValvesChoices ==
    {DefaultValves,
     [OCR_Base_URL |-> "http://ocr.local",
      OCR_API_KEY |-> "sk-1",
      ocr_prompt |-> "OCR",
      model_name |-> "gpt-4o"]}

\* Lines 40-43.
Headers(v) ==
    ("Content-Type" :> "application/json") @@
    ("Authorization" :> ("Bearer " \o v.OCR_API_KEY))

\* Mutant of OcrBody: the image is sent at detail "auto".
OcrBody_AutoDetail(v, image) ==
    [model |-> v.model_name,
     messages |->
        <<[role |-> "system",
           content |-> <<[type |-> "text", text |-> v.ocr_prompt]>>],
          [role |-> "user",
           content |-> <<[type |-> "text", text |-> v.ocr_prompt],
                         [type |-> "image_url",
                          image_url |-> [url |-> image, detail |-> "auto"]]>>]>>]

\* Lines 44-62.
OcrBody(v, image) ==
    [model |-> v.model_name,
     messages |->
        <<[role |-> "system",
           content |-> <<[type |-> "text", text |-> v.ocr_prompt]>>],
          [role |-> "user",
           content |-> <<[type |-> "text", text |-> v.ocr_prompt],
                         [type |-> "image_url",
                          image_url |-> [url |-> image, detail |-> "high"]]>>]>>]

\* Line 63.
Url(v) == v.OCR_Base_URL \o "/v1/chat/completions"

\* Lines 68-70: session.post(url, json=ocr_body, headers=headers).
PostRequest(v, image) ==
    [method |-> "POST", url |-> Url(v), json |-> OcrBody(v, image),
     headers |-> Headers(v)]

NoCalls == [scan |-> 0, fetch |-> 0, session |-> 0]
\* The value of other while no second invocation exists.
NoPeer == [pc |-> "absent"]

\* ----------------------------------------------------------------- scanner
IsList(content) == content.kind = "list"

\* Mutant of FindInContent: the loop does not stop at the first image_url
\* item, so the last one is returned.
RECURSIVE FindInContent_Last(_, _)
FindInContent_Last(items, c) ==
    IF c >= Len(items) THEN 0 - 1
    ELSE LET later == FindInContent_Last(items, c + 1)
         IN IF later >= 0 THEN later
            ELSE IF items[c + 1].type = "image_url" THEN c
            ELSE 0 - 1

\* The inner loop of _find_image_in_messages from 0-based index c on: the
\* 0-based index of the first image_url item, or -1.
RECURSIVE FindInContent(_, _)
FindInContent(items, c) ==
    IF c >= Len(items) THEN 0 - 1
    ELSE IF items[c + 1].type = "image_url" THEN c
    ELSE FindInContent(items, c + 1)

\* Mutant of FindFrom: the role test of line 130 is dropped.
RECURSIVE FindFrom_AnyRole(_, _)
FindFrom_AnyRole(msgs, m) ==
    IF m >= Len(msgs) THEN <<>>
    ELSE LET message == msgs[m + 1]
             c == IF IsList(message.content)
                  THEN FindInContent(message.content.items, 0)
                  ELSE 0 - 1
         IN IF c >= 0
            THEN <<m, c, message.content.items[c + 1].image_url.url>>
            ELSE FindFrom_AnyRole(msgs, m + 1)

\* Mutant of FindFrom: only the first user message with list content is
\* searched.
RECURSIVE FindFrom_FirstListOnly(_, _)
FindFrom_FirstListOnly(msgs, m) ==
    IF m >= Len(msgs) THEN <<>>
    ELSE LET message == msgs[m + 1]
         IN IF message.role = "user" /\ IsList(message.content)
            THEN LET c == FindInContent(message.content.items, 0)
                 IN IF c >= 0
                    THEN <<m, c, message.content.items[c + 1].image_url.url>>
                    ELSE <<>>
            ELSE FindFrom_FirstListOnly(msgs, m + 1)

\* The outer loop from 0-based index m on: (m_index, c_index, url) or <<>>.
RECURSIVE FindFrom(_, _)
FindFrom(msgs, m) ==
    IF m >= Len(msgs) THEN <<>>
    ELSE LET message == msgs[m + 1]
             c == IF message.role = "user" /\ IsList(message.content)
                  THEN FindInContent(message.content.items, 0)
                  ELSE 0 - 1
         IN IF c >= 0
            THEN <<m, c, message.content.items[c + 1].image_url.url>>
            ELSE FindFrom(msgs, m + 1)

_find_image_in_messages(msgs) == FindFrom(msgs, 0)

\* ------------------------------------------------------------------- inlet
\* messages = body.get("messages", []): an alias of the list inside body.
Messages(b) == IF "messages" \in DOMAIN b THEN b.messages ELSE <<>>

\* Mutant of DelItem: every image_url item of the message is deleted.
DelItem_AllImages(msgs, mi, ci) ==
    [msgs EXCEPT ![mi + 1].content.items =
        SelectSeq(@, LAMBDA it : it.type # "image_url")]

\* Mutant of DelItem: the index is off by one (the item before is deleted).
DelItem_OffByOne(msgs, mi, ci) ==
    LET items == msgs[mi + 1].content.items
        kept == [k \in 1 .. Len(items) - 1 |->
                    IF k < ci THEN items[k] ELSE items[k + 1]]
    IN [msgs EXCEPT ![mi + 1].content.items = kept]

\* del messages[mi]["content"][ci]
DelItem(msgs, mi, ci) ==
    LET items == msgs[mi + 1].content.items
        kept == [k \in 1 .. Len(items) - 1 |->
                    IF k <= ci THEN items[k] ELSE items[k + 1]]
    IN [msgs EXCEPT ![mi + 1].content.items = kept]

\* Mutant of SetType: the assignment of line 117 is forgotten.
SetType_Forgotten(item) == item
\* item["type"] = "text"
SetType(item) == [item EXCEPT !.type = "text"]
\* Mutant of PopImageUrl: the pop is forgotten.
PopImageUrl_Kept(item) == item
\* item.pop("image_url", None)
PopImageUrl(item) == [k \in DOMAIN item \ {"image_url"} |-> item[k]]
\* item["text"] = result
SetText(item, r) ==
    [k \in DOMAIN item \cup {"text"} |-> IF k = "text" THEN r ELSE item[k]]

\* Lines 117-119 on the located item, in the order of the code.
Retype(msgs, mi, ci, r) ==
    LET item == msgs[mi + 1].content.items[ci + 1]
    IN [msgs EXCEPT ![mi + 1].content.items[ci + 1] =
            SetText(PopImageUrl(SetType(item)), r)]

\* body["messages"] = messages
SetMessages(b, msgs) ==
    [k \in DOMAIN b \cup {"messages"} |-> IF k = "messages" THEN msgs ELSE b[k]]

\* Mutant of LaterRound: later rounds start at two message pairs.
LaterRound_TwoPairs(msgs) == (Len(msgs) \div 2) >= 2

\* Mutant of LaterRound: the round test is missing, every round is a first one.
LaterRound_Never(msgs) == FALSE

\* if (len(messages) // 2) >= 1
LaterRound(msgs) == (Len(msgs) \div 2) >= 1

Init ==
    /\ body \in Bodies
    /\ body0 = body
    /\ max_retries \in RetryValues
    /\ pc = "inlet"
    /\ image_info = <<>>
    /\ attempt = 0
    /\ result = None
    /\ fetch = "idle"
    /\ session = "none"
    /\ trace = <<>>
    /\ valves \in ValvesChoices
    /\ requests = <<>>
    /\ responses = <<>>
    /\ calls = NoCalls
    /\ unwinding = "none"
    /\ other = NoPeer
    /\ history = <<>>

\* inlet, lines 97-102: the scanner finds nothing.
InletNoImage ==
    /\ pc = "inlet"
    /\ _find_image_in_messages(Messages(body)) = <<>>
    /\ pc' = "returned"
    /\ calls' = [calls EXCEPT !.scan = @ + 1]
    /\ UNCHANGED <<body, body0, max_retries, image_info, attempt, result,
                   fetch, session, trace, requests, responses, unwinding>>
    /\ UNCHANGED outside

\* inlet, lines 97-110: an image in a later round is deleted.
InletLaterRound ==
    /\ pc = "inlet"
    /\ LET info == _find_image_in_messages(Messages(body))
       IN /\ info # <<>>
          /\ LaterRound(Messages(body))
          /\ image_info' = info
          /\ body' = SetMessages(body,
                        DelItem(Messages(body), info[1], info[2]))
    /\ pc' = "returned"
    /\ calls' = [calls EXCEPT !.scan = @ + 1]
    /\ UNCHANGED <<body0, max_retries, attempt, result, fetch, session, trace,
                   requests, responses, unwinding>>
    /\ UNCHANGED outside

\* inlet, lines 97-114, and _perform_ocr up to its first await (line 30):
\* the sink is called with the processing event.
InletFirstRound ==
    /\ pc = "inlet"
    /\ LET info == _find_image_in_messages(Messages(body))
       IN /\ info # <<>>
          /\ ~LaterRound(Messages(body))
          /\ image_info' = info
    /\ fetch' = "running"
    /\ trace' = Append(trace, "emit_processing")
    /\ pc' = "await_processing"
    /\ calls' = [calls EXCEPT !.scan = @ + 1, !.fetch = @ + 1]
    /\ UNCHANGED <<body, body0, max_retries, attempt, result, session,
                   requests, responses, unwinding>>
    /\ UNCHANGED outside

\* ------------------------------------------------------------ _perform_ocr
\* _perform_ocr has returned r, its session closed by the exit of line 65,
\* and inlet runs lines 117-120 and 125 without suspending.
ReturnToInlet(r, tr) ==
    /\ result' = r
    /\ fetch' = "returned"
    /\ session' = "closed"
    /\ body' = SetMessages(body,
                  Retype(Messages(body), image_info[1], image_info[2], r))
    /\ pc' = "returned"
    /\ trace' = tr
    /\ unwinding' = "none"
    /\ UNCHANGED <<body0, max_retries, image_info, attempt, requests>>

\* Mutant of RaiseToInlet: inlet has no except clause, the exception leaves it.
RaiseToInlet_Uncaught(tr) ==
    /\ fetch' = "raised"
    /\ session' = IF session = "open" THEN "closed" ELSE session
    /\ pc' = "raised"
    /\ trace' = tr
    /\ unwinding' = "none"
    /\ UNCHANGED <<body, body0, max_retries, image_info, attempt, result,
                   requests>>

\* An Exception has left _perform_ocr; inlet's except clause, lines 121-125,
\* prints it and returns body.
RaiseToInlet(tr) ==
    /\ fetch' = "raised"
    /\ session' = IF session = "open" THEN "closed" ELSE session
    /\ pc' = "returned"
    /\ trace' = tr
    /\ unwinding' = "none"
    /\ UNCHANGED <<body, body0, max_retries, image_info, attempt, result,
                   requests>>

\* CancelledError has left _perform_ocr: it is a BaseException, caught by
\* neither except clause, and leaves inlet too.
Cancelled(tr) ==
    /\ fetch' = "cancelled"
    /\ session' = IF session = "open" THEN "closed" ELSE session
    /\ pc' = "cancelled"
    /\ trace' = tr
    /\ unwinding' = "none"
    /\ UNCHANGED <<body, body0, max_retries, image_info, attempt, result,
                   requests>>

\* The block of line 65 has been left with unw on its way out: a return of
\* r, an Exception or a CancelledError.
AfterSession(unw, r, tr) ==
    CASE unw = "return" -> ReturnToInlet(r, tr)
      [] unw = "raise" -> RaiseToInlet(tr)
      [] unw = "cancel" -> Cancelled(tr)

\* The exit of `async with aiohttp.ClientSession()` (line 65): the session is
\* closed, and the close either suspends the coroutine or does not, as the
\* library decides.
ExitSession(unw, r, tr) ==
    \/ /\ pc' = "exit_session"
       /\ unwinding' = unw
       /\ result' = r
       /\ session' = "closed"
       /\ trace' = tr
       /\ UNCHANGED <<body, body0, max_retries, image_info, attempt, fetch,
                      requests>>
    \/ AfterSession(unw, r, tr)

\* Mutant of LoopFrom: the range is one too long (k <= max_retries).
LoopFrom_Inclusive(k, tr) ==
    IF k <= max_retries
    THEN /\ attempt' = k
         /\ trace' = Append(tr, "post")
         /\ requests' = Append(requests, PostRequest(valves, image_info[3]))
         /\ pc' = "await_post"
         /\ session' = "open"
         /\ unwinding' = "none"
         /\ UNCHANGED <<body, body0, max_retries, image_info, result, fetch>>
    ELSE ExitSession("return", None, tr)

\* Line 66 for the value k of the loop variable: the body runs and posts the
\* request (line 68) while k is in range(max_retries); after the range the
\* function falls off its end and returns None through the exit of line 65.
LoopFrom(k, tr) ==
    IF k < max_retries
    THEN /\ attempt' = k
         /\ trace' = Append(tr, "post")
         /\ requests' = Append(requests, PostRequest(valves, image_info[3]))
         /\ pc' = "await_post"
         /\ session' = "open"
         /\ unwinding' = "none"
         /\ UNCHANGED <<body, body0, max_retries, image_info, result, fetch>>
    ELSE ExitSession("return", None, tr)

\* Mutant of IsLastAttempt: compared with max_retries, not max_retries - 1.
IsLastAttempt_OffByOne(k) == k = max_retries

\* Lines 86-88: the except clause of one iteration.
IsLastAttempt(k) == k = max_retries - 1

ExceptHandler(tr) ==
    IF IsLastAttempt(attempt)
    THEN ExitSession("raise", result, tr)
    ELSE LoopFrom(attempt + 1, tr)

\* The block of line 68 has been left with unw on its way out: a return and
\* a CancelledError go on to the exit of line 65, an Exception is caught by
\* the except clause of line 86.
AfterResponse(unw, tr) ==
    CASE unw = "return" -> ExitSession("return", result, tr)
      [] unw = "raise" -> ExceptHandler(tr)
      [] unw = "cancel" -> ExitSession("cancel", result, tr)

\* The exit of `async with session.post(...)` (line 68), once the response
\* was obtained: the response is released, which either suspends the
\* coroutine or does not, as the library decides.
ExitResponse(unw, tr) ==
    \/ /\ pc' = "exit_response"
       /\ unwinding' = unw
       /\ trace' = tr
       /\ UNCHANGED <<body, body0, max_retries, image_info, attempt, result,
                      fetch, session, requests>>
    \/ AfterResponse(unw, tr)

\* Line 30 completes; lines 40-68: the session is opened and the loop entered.
ProcessingReturns ==
    /\ pc = "await_processing"
    /\ LoopFrom(0, Append(trace, "processing_ret"))
    /\ calls' = [calls EXCEPT !.session = @ + 1]
    /\ UNCHANGED responses
    /\ UNCHANGED outside

\* The sink raises on the processing event: line 30 is outside any try of
\* _perform_ocr and before the session, so the exception reaches inlet.
ProcessingRaises ==
    /\ pc = "await_processing"
    /\ RaiseToInlet(Append(trace, "processing_fail"))
    /\ UNCHANGED <<responses, calls>>
    /\ UNCHANGED outside

\* Mutant of PostSucceeds: the done event is not sent; result is returned.
PostSucceeds_NoDone ==
    /\ pc = "await_post"
    /\ \E t \in Results :
          /\ ReturnToInlet(t, Append(trace, "post_ok"))
          /\ responses' = Append(responses, t)
    /\ UNCHANGED calls
    /\ UNCHANGED outside

\* Lines 68-75: a 2xx response whose JSON holds choices[0].message.content = t;
\* the sink is then called with the done event.
PostSucceeds ==
    /\ pc = "await_post"
    /\ \E t \in Results :
          /\ result' = t
          /\ trace' = trace \o <<"post_ok", "emit_done">>
          /\ responses' = Append(responses, t)
          /\ pc' = "await_done"
    /\ UNCHANGED <<body, body0, max_retries, image_info, attempt, fetch,
                   session, requests, calls, unwinding>>
    /\ UNCHANGED outside

\* Lines 68-73 raise.  A connection error is raised by session.post itself,
\* before there is a response to release; raise_for_status, json() and the
\* subscripting of the response raise inside the block of line 68.
PostFails ==
    /\ pc = "await_post"
    /\ \E kind \in FailureKinds :
          IF kind = "transport_error"
          THEN ExceptHandler(Append(trace, kind))
          ELSE ExitResponse("raise", Append(trace, kind))
    /\ UNCHANGED <<responses, calls>>
    /\ UNCHANGED outside

\* Line 75 completes and line 85 returns result, through both exits.
DoneReturns ==
    /\ pc = "await_done"
    /\ ExitResponse("return", Append(trace, "done_ret"))
    /\ UNCHANGED <<responses, calls>>
    /\ UNCHANGED outside

\* The sink raises on the done event: line 75 is inside the block of line 68
\* and the try of line 67.
DoneRaises ==
    /\ pc = "await_done"
    /\ ExitResponse("raise", Append(trace, "done_fail"))
    /\ UNCHANGED <<responses, calls>>
    /\ UNCHANGED outside

\* The release of the response, suspended, completes.
ResponseExited ==
    /\ pc = "exit_response"
    /\ AfterResponse(unwinding, trace)
    /\ UNCHANGED <<responses, calls>>
    /\ UNCHANGED outside

\* The close of the session, suspended, completes.
SessionExited ==
    /\ pc = "exit_session"
    /\ AfterSession(unwinding, result, trace)
    /\ UNCHANGED <<responses, calls>>
    /\ UNCHANGED outside

\* Where the coroutine can be suspended: the awaits of lines 30, 68/72 and 75
\* and the two exits.
AwaitPoints ==
    {"await_processing", "await_post", "await_done",
     "exit_response", "exit_session"}

\* The task is cancelled while suspended.  At line 30 there is no session
\* yet; at line 68 there is no response yet and at line 72 there is one; at
\* line 75 and in the release of the response both exits are still to run;
\* in the close of the session nothing is.
Cancel ==
    /\ pc \in AwaitPoints
    /\ CASE pc = "await_processing" -> Cancelled(trace)
         [] pc = "await_post" -> \/ ExitSession("cancel", result, trace)
                                 \/ ExitResponse("cancel", trace)
         [] pc = "await_done" -> ExitResponse("cancel", trace)
         [] pc = "exit_response" -> ExitSession("cancel", result, trace)
         [] pc = "exit_session" -> Cancelled(trace)
    /\ UNCHANGED <<responses, calls>>
    /\ UNCHANGED outside

Next ==
    \/ InletNoImage
    \/ InletLaterRound
    \/ InletFirstRound
    \/ ProcessingReturns
    \/ ProcessingRaises
    \/ PostSucceeds
    \/ PostFails
    \/ DoneReturns
    \/ DoneRaises
    \/ ResponseExited
    \/ SessionExited
    \/ Cancel

Spec == Init /\ [][Next]_vars

\* ------------------------------------------------ a conversation of calls
\* The messages the host adds between two calls, at 0-based positions from
\* offset on.
MkMessagesFrom(shapes, offset) ==
    [m \in 1 .. Len(shapes) |->
        [role |-> shapes[m].role,
         content |-> MkContent(shapes[m].content, offset + m - 1)]]

\* The messages of a conversation of several calls: as MessageShapes, with
\* at most MaxConvItems items each.
ConvMessageShapes ==
    {sh \in MessageShapes :
        sh.content.kind = "list" => Len(sh.content.types) <= MaxConvItems}

ConvBodies ==
    {[model |-> "gpt"]} \cup
    {[model |-> "gpt", messages |-> MkMessages(sh)] :
        sh \in SeqsUpTo(ConvMessageShapes, MaxMsgs)}

\* What is kept of a call once it is over.
CallSummary ==
    [len |-> Len(Messages(body0)),
     found |-> image_info # <<>>,
     fetched |-> calls.fetch,
     posts |-> Len(requests),
     items |-> IF image_info = <<>> THEN 0
               ELSE Len(Messages(body)[image_info[1] + 1].content.items)
                    - Len(Messages(body0)[image_info[1] + 1].content.items)]

\* The host calls inlet again for the same conversation, whose message list
\* has grown by one message or more since the call before (which returned or
\* was cancelled); the locals of the new call are fresh.
NextCall ==
    /\ pc \in {"returned", "cancelled"}
    /\ \E extra \in SeqsUpTo(ConvMessageShapes, MaxMsgs - Len(Messages(body))) :
          /\ extra # <<>>
          /\ body' = SetMessages(body,
                        Messages(body) \o
                        MkMessagesFrom(extra, Len(Messages(body))))
    /\ body0' = body'
    /\ pc' = "inlet"
    /\ image_info' = <<>>
    /\ attempt' = 0
    /\ result' = None
    /\ fetch' = "idle"
    /\ session' = "none"
    /\ trace' = <<>>
    /\ requests' = <<>>
    /\ responses' = <<>>
    /\ calls' = NoCalls
    /\ unwinding' = "none"
    /\ history' = Append(history, CallSummary)
    /\ UNCHANGED <<max_retries, valves, other>>

NextConv == Next \/ NextCall

\* The first call of a conversation, under the default configuration with
\* no attempt allowed or MaxRetries of them.
InitConv ==
    /\ body \in ConvBodies
    /\ body0 = body
    /\ max_retries \in {0, MaxRetries}
    /\ pc = "inlet"
    /\ image_info = <<>>
    /\ attempt = 0
    /\ result = None
    /\ fetch = "idle"
    /\ session = "none"
    /\ trace = <<>>
    /\ valves = DefaultValves
    /\ requests = <<>>
    /\ responses = <<>>
    /\ calls = NoCalls
    /\ unwinding = "none"
    /\ other = NoPeer
    /\ history = <<>>

SpecConv == InitConv /\ [][NextConv]_vars

\* ------------------------------------------- two concurrent invocations
\* The frame of the running invocation: its payload, the locals of inlet and
\* of _perform_ocr, and its history variables.  self.valves is not in it: it
\* is the one object the invocations of a Filter share.
Frame ==
    [body |-> body, body0 |-> body0, pc |-> pc, image_info |-> image_info,
     attempt |-> attempt, result |-> result, fetch |-> fetch,
     session |-> session, trace |-> trace, requests |-> requests,
     responses |-> responses, calls |-> calls, unwinding |-> unwinding]

\* The frame of an invocation that was called with payload b and has not
\* run yet.
NewFrame(b) ==
    [body |-> b, body0 |-> b, pc |-> "inlet", image_info |-> <<>>,
     attempt |-> 0, result |-> None, fetch |-> "idle", session |-> "none",
     trace |-> <<>>, requests |-> <<>>, responses |-> <<>>, calls |-> NoCalls,
     unwinding |-> "none"]

\* The payloads of the two invocations: a first-round one, a later-round one
\* and one without messages, told apart by their "model" key.
UserImage ==
    [role |-> "user", content |-> [kind |-> "list", types |-> <<"image_url">>]]
ConcShapes == {<<UserImage>>, <<UserImage, UserImage>>, <<>>}
ConcBodies(tag) ==
    {[model |-> tag, messages |-> MkMessages(sh)] : sh \in ConcShapes}
ConcRetryValues == {0 - 1} \cup (0 .. MaxConcRetries)

\* Mutant of Switch: result is an attribute of the Filter (self.result), so
\* the resumed invocation finds the value the other one left.
Switch_SharedResult ==
    /\ other.pc \in {"inlet"} \cup AwaitPoints
    /\ other' = Frame
    /\ body' = other.body
    /\ body0' = other.body0
    /\ pc' = other.pc
    /\ image_info' = other.image_info
    /\ attempt' = other.attempt
    /\ result' = result
    /\ fetch' = other.fetch
    /\ session' = other.session
    /\ trace' = other.trace
    /\ requests' = other.requests
    /\ responses' = other.responses
    /\ calls' = other.calls
    /\ unwinding' = other.unwinding
    /\ UNCHANGED <<max_retries, valves, history>>

\* Mutant of Switch: the session is an attribute of the Filter
\* (self.session), so both invocations see one session.
Switch_SharedSession ==
    /\ other.pc \in {"inlet"} \cup AwaitPoints
    /\ other' = Frame
    /\ body' = other.body
    /\ body0' = other.body0
    /\ pc' = other.pc
    /\ image_info' = other.image_info
    /\ attempt' = other.attempt
    /\ result' = other.result
    /\ fetch' = other.fetch
    /\ session' = session
    /\ trace' = other.trace
    /\ requests' = other.requests
    /\ responses' = other.responses
    /\ calls' = other.calls
    /\ unwinding' = other.unwinding
    /\ UNCHANGED <<max_retries, valves, history>>

\* The event loop runs the other invocation: the running one is at an await
\* (or has not started, or is over), the other one is not over.  Each keeps
\* its own frame; the Filter and its valves are common to both.
Switch ==
    /\ other.pc \in {"inlet"} \cup AwaitPoints
    /\ other' = Frame
    /\ body' = other.body
    /\ body0' = other.body0
    /\ pc' = other.pc
    /\ image_info' = other.image_info
    /\ attempt' = other.attempt
    /\ result' = other.result
    /\ fetch' = other.fetch
    /\ session' = other.session
    /\ trace' = other.trace
    /\ requests' = other.requests
    /\ responses' = other.responses
    /\ calls' = other.calls
    /\ unwinding' = other.unwinding
    /\ UNCHANGED <<max_retries, valves, history>>

NextConc == Next \/ Switch

\* Two invocations of one Filter on distinct payloads, neither started.
InitConc ==
    /\ body \in ConcBodies("A")
    /\ body0 = body
    /\ max_retries \in ConcRetryValues
    /\ pc = "inlet"
    /\ image_info = <<>>
    /\ attempt = 0
    /\ result = None
    /\ fetch = "idle"
    /\ session = "none"
    /\ trace = <<>>
    /\ valves \in ValvesChoices
    /\ requests = <<>>
    /\ responses = <<>>
    /\ calls = NoCalls
    /\ unwinding = "none"
    /\ other \in {NewFrame(b) : b \in ConcBodies("B")}
    /\ history = <<>>

SpecConc == InitConc /\ [][NextConc]_vars

\* ------------------------------------------------- vocabulary of the claims
Msgs0 == Messages(body0)

\* The 1-based positions <<m, c>> of the image_url items of user messages
\* with list content.
ImagePositions(msgs) ==
    UNION {IF msgs[m].role = "user" /\ msgs[m].content.kind = "list"
           THEN {<<m, c>> : c \in {i \in DOMAIN msgs[m].content.items :
                                   msgs[m].content.items[i].type = "image_url"}}
           ELSE {} : m \in DOMAIN msgs}

Before(p, q) == p[1] < q[1] \/ (p[1] = q[1] /\ p[2] < q[2])

\* The first of them by message order, then content order.
FirstImagePos(msgs) ==
    CHOOSE p \in ImagePositions(msgs) :
        \A q \in ImagePositions(msgs) \ {p} : Before(p, q)

HasImage == ImagePositions(Msgs0) # {}

ItemsAt(msgs, m) == msgs[m].content.items

\* msgs with the item at position p taken out of its content sequence.
Removed(msgs, p) ==
    [msgs EXCEPT ![p[1]].content.items =
        SubSeq(@, 1, p[2] - 1) \o SubSeq(@, p[2] + 1, Len(@))]

\* msgs with the item at position p replaced by a text item carrying r.
Replaced(msgs, p, r) ==
    [msgs EXCEPT ![p[1]].content.items[p[2]] = [type |-> "text", text |-> r]]

Count(tr, S) == Cardinality({i \in DOMAIN tr : tr[i] \in S})
NetworkAttempts == Count(trace, {"post"})
Notifications == Count(trace, {"emit_processing", "emit_done"})
FailedAttempts == Count(trace, FailureKinds \cup {"done_fail"})
Ends(tr, suffix) ==
    /\ Len(tr) >= Len(suffix)
    /\ SubSeq(tr, Len(tr) - Len(suffix) + 1, Len(tr)) = suffix

\* The fetch returned the text of a successful response.
FetchSucceeded == fetch = "returned" /\ Ends(trace, <<"done_ret">>)
\* Every one of the max_retries >= 1 attempts was made and failed.
AllAttemptsFailed ==
    /\ max_retries >= 1
    /\ NetworkAttempts = max_retries
    /\ FailedAttempts = max_retries

\* ------------------------------------------------------------------ claims

\* C1: after a first-round inlet call whose fetch succeeded, the located item
\* is exactly {type: "text", text: <the fetched string>} (no image_url key
\* left), the fetched string is a response text, and every other item,
\* message and key of the payload is as on entry.
C1_SuccessSubstitution ==
    FetchSucceeded =>
        /\ pc = "returned"
        /\ result \in Results
        /\ body = [body0 EXCEPT
                     !.messages = Replaced(Msgs0, FirstImagePos(Msgs0), result)]
        /\ LET p == FirstImagePos(Msgs0)
           IN "image_url" \notin DOMAIN ItemsAt(Messages(body), p[1])[p[2]]

\* C1 witness: a successful first-round call on a message that also holds
\* another item, after one failed attempt.
C1_Witness ==
    /\ FetchSucceeded
    /\ Len(ItemsAt(Msgs0, 1)) = 2
    /\ FailedAttempts >= 1

\* C2: a payload without an image_url item in a user message with list
\* content is returned as it came, with no sink call and no network attempt,
\* and the fetcher is never entered.
C2_NoImageNoOp ==
    ~HasImage =>
        /\ body = body0
        /\ trace = <<>>
        /\ fetch = "idle"
        /\ session = "none"
        /\ pc \in {"inlet", "returned"}

\* C2 witness: inlet returned on a payload whose only image sits in an
\* assistant message, next to a user message with scalar content.
C2_Witness ==
    /\ pc = "returned"
    /\ ~HasImage
    /\ \E m \in DOMAIN Msgs0 :
          /\ Msgs0[m].role = "assistant"
          /\ Msgs0[m].content.kind = "list"
          /\ \E c \in DOMAIN ItemsAt(Msgs0, m) :
                ItemsAt(Msgs0, m)[c].type = "image_url"
    /\ \E m \in DOMAIN Msgs0 :
          Msgs0[m].role = "user" /\ Msgs0[m].content.kind = "str"

\* C3: when an image is found and len(messages) // 2 >= 1, the call never
\* enters the fetcher (no sink call, no network attempt) and returns the
\* payload with exactly the located item taken out: that content sequence is
\* one shorter, the message stays, nothing else changes.
C3_LaterRoundRemoves ==
    (HasImage /\ (Len(Msgs0) \div 2) >= 1) =>
        /\ trace = <<>>
        /\ fetch = "idle"
        /\ pc \in {"inlet", "returned"}
        /\ pc = "returned" =>
              LET p == FirstImagePos(Msgs0)
              IN /\ body = [body0 EXCEPT !.messages = Removed(Msgs0, p)]
                 /\ Len(Messages(body)) = Len(Msgs0)
                 /\ Len(ItemsAt(Messages(body), p[1])) =
                       Len(ItemsAt(Msgs0, p[1])) - 1

\* C3 witness: a later-round call removed an image that was not the first
\* item of its message.
C3_Witness ==
    /\ pc = "returned"
    /\ HasImage
    /\ (Len(Msgs0) \div 2) >= 1
    /\ FirstImagePos(Msgs0)[2] = 2

\* C4: when each of the max_retries (>= 1) attempts of a first-round fetch
\* has failed, inlet does not raise: the failure is on its way out of the
\* fetcher (in the release of the response or the close of the session) or
\* inlet has returned after the fetcher raised, unless the call was
\* cancelled on that way; and the payload is as on entry: the located item
\* is still the image item with its url.
C4_ExhaustionKeepsPayload ==
    AllAttemptsFailed =>
        /\ \/ pc = "returned" /\ fetch = "raised"
           \/ pc \in {"exit_response", "exit_session"} /\ fetch = "running"
                 /\ unwinding \in {"raise", "cancel"}
           \/ pc = "cancelled" /\ fetch = "cancelled"
        /\ body = body0
        /\ LET p == FirstImagePos(Msgs0)
               item == ItemsAt(Messages(body), p[1])[p[2]]
           IN /\ item.type = "image_url"
              /\ item.image_url.url = image_info[3]

\* C4 witness: three attempts, each answered with an HTTP error, and inlet
\* has returned.
C4_Witness ==
    /\ AllAttemptsFailed
    /\ pc = "returned"
    /\ max_retries = 3
    /\ Count(trace, {"http_error"}) = 3

\* C5: a fetch never makes more than max_retries network attempts; one that
\* succeeds after N failed attempts has N < max_retries and made exactly
\* N + 1 attempts; one that fails after its loop was entered has made exactly
\* max_retries attempts, all failed, and the payload is unchanged; once
\* max_retries attempts have failed the fetch raises (the exception is on
\* its way out or has reached inlet) unless it is cancelled on that way.
C5_RetryBound ==
    /\ NetworkAttempts <= (IF max_retries > 0 THEN max_retries ELSE 0)
    /\ FetchSucceeded =>
          /\ FailedAttempts < max_retries
          /\ NetworkAttempts = FailedAttempts + 1
    /\ (fetch = "raised" /\ NetworkAttempts > 0) =>
          /\ NetworkAttempts = max_retries
          /\ FailedAttempts = max_retries
          /\ body = body0
    /\ (max_retries >= 1 /\ FailedAttempts = max_retries) =>
          \/ fetch = "raised"
          \/ fetch = "running" /\ unwinding \in {"raise", "cancel"}
          \/ fetch = "cancelled"

\* C5 witness: success on the third attempt after two failures.
C5_Witness ==
    /\ FetchSucceeded
    /\ FailedAttempts = 2
    /\ NetworkAttempts = 3

\* C6 as stated: no network attempt starts before the processing event
\* (done=false) has been sent and its await has completed; in a fetch that
\* returns a response text every done event (done=true) is sent after the
\* last network attempt has completed, and the fetch ends with: last attempt
\* answered, done event sent, its await completed, return.
C6_NotificationOrder ==
    /\ \A i \in DOMAIN trace :
          trace[i] = "post" =>
              /\ i > 2
              /\ trace[1] = "emit_processing"
              /\ trace[2] = "processing_ret"
    /\ pc = "await_processing" => trace = <<"emit_processing">>
    /\ (fetch = "returned" /\ result \in Results) =>
          /\ Ends(trace, <<"post", "post_ok", "emit_done", "done_ret">>)
          /\ \A i, j \in DOMAIN trace :
                (trace[i] = "emit_done" /\ trace[j] = "post") => j < i

\* C7: whatever inlet does, the message list is the one of entry, or that
\* list with the first image item (message order, then content order, among
\* user messages with list content) removed or replaced by a text item; all
\* other items, image items included, and all other keys stay as they were.
C7_FirstImageOnly ==
    HasImage =>
        LET p == FirstImagePos(Msgs0)
        IN /\ Messages(body) \in
                 {Msgs0, Removed(Msgs0, p)} \cup
                 {Replaced(Msgs0, p, r) : r \in Results \cup {None}}
           /\ body = [body0 EXCEPT !.messages = Messages(body)]
           /\ image_info # <<>> =>
                 /\ image_info[1] = p[1] - 1
                 /\ image_info[2] = p[2] - 1

\* C7 witness: inlet changed a payload that holds two images in user
\* messages with list content.
C7_Witness ==
    /\ pc = "returned"
    /\ body # body0
    /\ Cardinality(ImagePositions(Msgs0)) >= 2

\* The 1-based indices of the user messages with list content.
UserListMessages(msgs) ==
    {m \in DOMAIN msgs : msgs[m].role = "user" /\ msgs[m].content.kind = "list"}
ImageIndices(items) == {c \in DOMAIN items : items[c].type = "image_url"}
Min(S) == CHOOSE x \in S : \A y \in S : x <= y

\* C8 as stated: a returned location lies in the first user message with list
\* content, at the first image item of that message.
C8_InFirstListMessage ==
    image_info # <<>> =>
        LET m == Min(UserListMessages(Msgs0))
        IN /\ image_info[1] = m - 1
           /\ ImageIndices(ItemsAt(Msgs0, m)) # {}
           /\ image_info[2] = Min(ImageIndices(ItemsAt(Msgs0, m))) - 1

\* C8 amended: a returned location lies in the first user message with list
\* content that holds an image item, at the first image item of that message,
\* with that item's url; nothing is returned when no such message exists;
\* the payload is untouched when the scan is over.
C8_InFirstMessageWithImage ==
    LET holders == {m \in UserListMessages(Msgs0) :
                        ImageIndices(ItemsAt(Msgs0, m)) # {}}
    IN /\ (pc # "inlet" /\ holders = {}) => image_info = <<>>
       /\ (pc # "inlet" /\ holders # {}) =>
             LET m == Min(holders)
                 c == Min(ImageIndices(ItemsAt(Msgs0, m)))
             IN image_info = <<m - 1, c - 1, ItemsAt(Msgs0, m)[c].image_url.url>>
       /\ pc = "await_processing" => body = body0

\* C8 witness: the image was located in the second message, behind a user
\* message with scalar content.
C8_Witness ==
    /\ image_info # <<>>
    /\ image_info[1] = 1
    /\ Msgs0[1].role = "user"
    /\ Msgs0[1].content.kind = "str"

\* C9 as stated: an image found with fewer than two message pairs present is
\* sent to the fetcher and not removed.
C9_FewerThanTwoPairs ==
    (HasImage /\ (Len(Msgs0) \div 2) < 2 /\ pc = "returned") =>
        /\ fetch # "idle"
        /\ Len(ItemsAt(Messages(body), FirstImagePos(Msgs0)[1])) =
              Len(ItemsAt(Msgs0, FirstImagePos(Msgs0)[1]))

\* C9 amended: an image found is sent to the fetcher exactly when no complete
\* message pair is present (len(messages) // 2 = 0); the item is then not
\* removed.
C9_FirstRoundGate ==
    (HasImage /\ pc # "inlet") =>
        /\ (Len(Msgs0) \div 2) < 1 <=> fetch # "idle"
        /\ (Len(Msgs0) \div 2) < 1 =>
              /\ trace # <<>>
              /\ trace[1] = "emit_processing"
              /\ Len(ItemsAt(Messages(body), FirstImagePos(Msgs0)[1])) =
                    Len(ItemsAt(Msgs0, FirstImagePos(Msgs0)[1]))

\* C9 witness: a one-message conversation whose image went to the fetcher.
C9_Witness ==
    /\ HasImage
    /\ Len(Msgs0) = 1
    /\ pc = "returned"
    /\ NetworkAttempts >= 1

\* C10 as stated: a fetch that ended in terminal failure has not sent the
\* done=true event, and the failure is the last thing of its trace.
C10_NoSuccessOnFailure ==
    fetch = "raised" =>
        /\ Count(trace, {"emit_done"}) = 0
        /\ trace[Len(trace)] \in FailureKinds \cup {"processing_fail", "done_fail"}

\* ------------------------------------------------------- claims C11 to C20
FirstRoundCall == HasImage /\ (Len(Msgs0) \div 2) < 1
FailureEvents == FailureKinds \cup {"processing_fail", "done_fail"}
TextItems == {[type |-> "text", text |-> r] : r \in Results \cup {None}}

\* C11: in every state of a first-round call (at each await, on return, after
\* a cancellation) the located item is the image item of entry or a text
\* item without image_url key; it is a text item only once inlet has
\* returned; while the call is suspended and after a cancellation the payload
\* is the one of entry.
C11_AllOrNothing ==
    FirstRoundCall =>
        LET p == FirstImagePos(Msgs0)
            item == ItemsAt(Messages(body), p[1])[p[2]]
        IN /\ \/ item = ItemsAt(Msgs0, p[1])[p[2]]
              \/ item \in TextItems /\ pc = "returned" /\ fetch = "returned"
           /\ ~(item.type = "text" /\ "image_url" \in DOMAIN item)
           /\ ~(item.type = "image_url" /\ "text" \in DOMAIN item)
           /\ pc \in AwaitPoints \cup {"cancelled"} => body = body0

\* C11 witness: the call was cancelled while the done event was awaited,
\* after a successful response.
C11_Witness ==
    /\ pc = "cancelled"
    /\ Ends(trace, <<"post_ok", "emit_done">>)

\* C13: no exception of the sink or of an attempt leaves inlet: the call is
\* at inlet's entry, suspended, returned or cancelled; once an exception has
\* left the fetcher inlet has returned the payload of entry; a failure event
\* at the end of the trace of a call that returned means the fetcher raised,
\* and until then the payload is the one of entry; a returned payload
\* differs from the one of entry only by the complete removal or replacement
\* of the located item.
C13_FailuresNeverEscape ==
    /\ pc \in {"inlet", "returned", "cancelled"} \cup AwaitPoints
    /\ pc = "cancelled" => fetch = "cancelled"
    /\ fetch = "raised" => pc = "returned" /\ body = body0
    /\ (trace # <<>> /\ trace[Len(trace)] \in FailureEvents) =>
          /\ body = body0
          /\ pc = "returned" => fetch = "raised"
    /\ (pc = "returned" /\ FirstRoundCall /\ body # body0) =>
          /\ fetch = "returned"
          /\ Messages(body) = Replaced(Msgs0, FirstImagePos(Msgs0), result)

\* C13 witness: the sink raised on the done event of the last attempt and
\* inlet returned.
C13_Witness ==
    /\ pc = "returned"
    /\ fetch = "raised"
    /\ Ends(trace, <<"post_ok", "emit_done", "done_fail">>)

\* C16: one request is recorded per network attempt, and each is the POST to
\* <base_url>/v1/chat/completions with the bearer header and a body of the
\* configured model and two messages: system with the prompt, user with the
\* prompt and the located image at detail "high".
C16_RequestShape ==
    /\ Len(requests) = NetworkAttempts
    /\ \A i \in DOMAIN requests :
          LET p == FirstImagePos(Msgs0)
              req == requests[i]
          IN /\ req.method = "POST"
             /\ req.url = valves.OCR_Base_URL \o "/v1/chat/completions"
             /\ req.headers["Authorization"] = "Bearer " \o valves.OCR_API_KEY
             /\ req.json.model = valves.model_name
             /\ req.json.messages =
                   <<[role |-> "system",
                      content |-> <<[type |-> "text",
                                     text |-> valves.ocr_prompt]>>],
                     [role |-> "user",
                      content |->
                         <<[type |-> "text", text |-> valves.ocr_prompt],
                           [type |-> "image_url",
                            image_url |->
                               [url |-> ItemsAt(Msgs0, p[1])[p[2]].image_url.url,
                                detail |-> "high"]]>>]>>
             /\ req = requests[1]

\* C16 witness: three attempts under the host-set configuration, for an
\* image that is the second item of its message.
C16_Witness ==
    /\ Len(requests) = 3
    /\ valves.OCR_API_KEY = "sk-1"
    /\ image_info[2] = 1

\* The trace without the sink events: posts and their answers only.
NetworkEvents == {"post", "post_ok"} \cup FailureKinds
NetTrace == SelectSeq(trace, LAMBDA e : e \in NetworkEvents)

\* C17 as stated: a post is always followed by its answer before the next
\* post, every post but the first directly follows a failed answer, and no
\* post follows a successful answer.
C17_Sequential ==
    /\ \A i \in DOMAIN NetTrace :
          (NetTrace[i] = "post" /\ i > 1) => NetTrace[i - 1] \in FailureKinds
    /\ \A i \in DOMAIN NetTrace :
          (NetTrace[i] # "post") => (i > 1 /\ NetTrace[i - 1] = "post")
    /\ \A i, j \in DOMAIN trace :
          (trace[i] = "post_ok" /\ j > i) => trace[j] # "post"

\* The items of b differ from those of a by at most one removal or one
\* replacement.
AtMostOneItemChanged(a, b) ==
    \/ /\ Len(b) = Len(a)
       /\ Cardinality({i \in DOMAIN a : a[i] # b[i]}) <= 1
    \/ /\ Len(b) = Len(a) - 1
       /\ \E i \in DOMAIN a : b = SubSeq(a, 1, i - 1) \o SubSeq(a, i + 1, Len(a))

AtMostOneItemChangedIn(old, new) ==
    \/ new = old
    \/ /\ Len(new) = Len(old)
       /\ \E m \in DOMAIN old :
             /\ \A k \in DOMAIN old \ {m} : new[k] = old[k]
             /\ old[m].content.kind = "list"
             /\ new[m] = [old[m] EXCEPT !.content.items = new[m].content.items]
             /\ AtMostOneItemChanged(old[m].content.items, new[m].content.items)

NoImageOutcome == image_info = <<>> /\ fetch = "idle" /\ body = body0
LaterRoundOutcome ==
    /\ image_info # <<>>
    /\ fetch = "idle"
    /\ Messages(body) = Removed(Msgs0, FirstImagePos(Msgs0))
SuccessOutcome ==
    /\ fetch = "returned"
    /\ Messages(body) = Replaced(Msgs0, FirstImagePos(Msgs0), result)
FailureOutcome == fetch = "raised" /\ body = body0

\* C18: a call that has returned shows exactly one of the four outcomes; the
\* scanner ran once, the fetcher was called at most once (and only on the
\* two first-round outcomes), and at most one content item differs from entry.
C18_OneOutcome ==
    /\ calls.fetch <= 1
    /\ calls.scan = (IF pc = "inlet" THEN 0 ELSE 1)
    /\ AtMostOneItemChangedIn(Msgs0, Messages(body))
    /\ pc = "returned" =>
          /\ Cardinality({o \in {"NoImage", "LaterRound", "Success", "Failure"} :
                CASE o = "NoImage" -> NoImageOutcome
                  [] o = "LaterRound" -> LaterRoundOutcome
                  [] o = "Success" -> SuccessOutcome
                  [] o = "Failure" -> FailureOutcome}) = 1
          /\ calls.fetch = (IF SuccessOutcome \/ FailureOutcome THEN 1 ELSE 0)

\* C18 witness: a returned first-round call that failed after the fetcher
\* made two attempts.
C18_Witness ==
    /\ pc = "returned"
    /\ FailureOutcome
    /\ NetworkAttempts = 2
    /\ calls.fetch = 1

\* C19 as stated: a fetch that returned made at least one attempt, returns
\* the text of a 2xx response and sent the done event; the located item then
\* carries such a text.
C19_ReturnMeansSuccess ==
    fetch = "returned" =>
        /\ NetworkAttempts >= 1
        /\ Count(trace, {"emit_done"}) >= 1
        /\ responses # <<>>
        /\ result = responses[Len(responses)]
        /\ LET p == FirstImagePos(Msgs0)
           IN ItemsAt(Messages(body), p[1])[p[2]].text \in Results

\* C20 as stated: after a 2xx answer whose result was extracted no further
\* post is made, and the done event is sent at most once.
C20_NoAttemptAfterSuccess ==
    /\ \A i, j \in DOMAIN trace :
          (trace[i] = "post_ok" /\ j > i) => trace[j] # "post"
    /\ Count(trace, {"emit_done"}) <= 1

\* The calls of the conversation so far, the current one last.
AllCalls == Append(history, CallSummary)

\* C14: over the calls of one conversation whose message list grows from
\* call to call, the fetcher is called in at most one call, that call has no
\* complete message pair (len(messages) // 2 = 0), and every call beyond the
\* first exchange that finds an image makes no network attempt and, once
\* over, has taken exactly that item out.
C14_OneFetchPerConversation ==
    /\ \A i, j \in DOMAIN AllCalls : i < j => AllCalls[i].len < AllCalls[j].len
    /\ Cardinality({i \in DOMAIN AllCalls : AllCalls[i].fetched > 0}) <= 1
    /\ \A i \in DOMAIN AllCalls :
          /\ AllCalls[i].fetched > 0 => (AllCalls[i].len \div 2) = 0
          /\ (AllCalls[i].found /\ (AllCalls[i].len \div 2) >= 1) =>
                /\ AllCalls[i].fetched = 0
                /\ AllCalls[i].posts = 0
                /\ AllCalls[i].items = 0 - 1
          /\ (\E j \in DOMAIN AllCalls : j < i /\ AllCalls[j].fetched > 0) =>
                AllCalls[i].posts = 0

\* C14 witness: the first call fetched (two attempts), the second call found
\* an image and removed it without any attempt.
C14_Witness ==
    /\ Len(history) = 1
    /\ history[1].fetched = 1
    /\ history[1].posts = 2
    /\ pc = "returned"
    /\ image_info # <<>>
    /\ requests = <<>>

\* The frames of the invocations that exist: the running one and, when
\* there is one, the other.
Frames == {Frame} \cup (IF other.pc = "absent" THEN {} ELSE {other})

\* C12: for each invocation: at most one session is created, and it is
\* created exactly when the await of the processing event has completed; it
\* is open whenever an attempt or the done event is awaited or a response is
\* being released (so every attempt of the call runs on it); it is closed
\* from the exit of its block on, so once the call has returned or was
\* cancelled; closing the session of one invocation leaves that of the other
\* open.
C12_OneSessionPerFetch ==
    \A f \in Frames :
        /\ f.calls.session <= 1
        /\ f.calls.session = 1 <=> Count(f.trace, {"processing_ret"}) = 1
        /\ f.pc \in {"inlet", "await_processing"} => f.session = "none"
        /\ f.pc \in {"await_post", "await_done", "exit_response"} =>
              f.session = "open" /\ f.calls.session = 1
        /\ f.pc = "exit_session" =>
              f.session = "closed" /\ f.calls.session = 1
        /\ f.pc \in {"returned", "cancelled"} =>
              f.session = (IF f.calls.session = 1 THEN "closed" ELSE "none")

\* C12 witness: the running invocation was cancelled with an attempt in
\* flight and its session is closed, while the other one is in its second
\* attempt on its own session, still open.
C12_Witness ==
    /\ pc = "cancelled"
    /\ Ends(trace, <<"post">>)
    /\ session = "closed"
    /\ other.pc = "await_post"
    /\ other.session = "open"
    /\ Len(other.requests) = 2

LastOr(sq, default) == IF sq = <<>> THEN default ELSE sq[Len(sq)]

\* What the payload of frame f is when the invocation runs alone on f.body0
\* and is given the answers f.trace and f.responses record.
AloneBody(f) ==
    LET msgs0 == Messages(f.body0)
    IN IF f.fetch = "returned"
       THEN [f.body0 EXCEPT !.messages =
                Replaced(msgs0, FirstImagePos(msgs0), LastOr(f.responses, None))]
       ELSE IF f.pc = "returned" /\ f.fetch = "idle"
                                    /\ ImagePositions(msgs0) # {}
       THEN [f.body0 EXCEPT !.messages = Removed(msgs0, FirstImagePos(msgs0))]
       ELSE f.body0

\* C15: with two invocations of one Filter interleaved at their awaits, each
\* one's payload, number of network attempts, requests and sink calls are
\* those of that invocation alone on its own payload with its own answers:
\* the payload is AloneBody, result is its own last response, every request
\* carries its own image and the configuration, posts do not exceed
\* max_retries, and one done event follows each of its 2xx answers.
C15_NoInterference ==
    \A f \in Frames :
        LET msgs0 == Messages(f.body0)
        IN /\ f.body = AloneBody(f)
           /\ f.result = LastOr(f.responses, None)
           /\ Len(f.requests) = Count(f.trace, {"post"})
           /\ Len(f.requests) <= (IF max_retries > 0 THEN max_retries ELSE 0)
           /\ Len(f.responses) = Count(f.trace, {"post_ok"})
           /\ Count(f.trace, {"emit_done"}) = Len(f.responses)
           /\ Count(f.trace, {"emit_processing"}) = f.calls.fetch
           /\ f.calls.fetch =
                 (IF f.pc # "inlet" /\ Len(msgs0) = 1
                     /\ ImagePositions(msgs0) # {} THEN 1 ELSE 0)
           /\ \A i \in DOMAIN f.requests :
                 /\ f.requests[i].json.messages[2].content[2].image_url.url =
                       ItemsAt(msgs0, 1)[FirstImagePos(msgs0)[2]].image_url.url
                 /\ f.requests[i].url = valves.OCR_Base_URL \o "/v1/chat/completions"
                 /\ f.requests[i].json.model = valves.model_name

\* C15 witness: both invocations are suspended on their done event, each with
\* the text of its own response, the two texts different.
C15_Witness ==
    /\ pc = "await_done"
    /\ other.pc = "await_done"
    /\ result # other.result
    /\ body.model # other.body.model

=============================================================================
